---- MODULE Spec2Model ----
(***************************************************************************)
(* Human-in-the-loop agent (agent.py, app.py): the approval / feedback     *)
(* state machine of HumanInLoopAgent, its code-block extraction, the code  *)
(* runner execute_code, the CLI command loop of main() and the Streamlit   *)
(* GUI.                                                                    *)
(*                                                                         *)
(* Texts are sequences of tokens.  A token is a piece of text that the     *)
(* program never looks inside: the fence "```", the word "python", the     *)
(* newline, the blank, and opaque words.  The empty text is << >>.         *)
(***************************************************************************)
EXTENDS Integers, Sequences, FiniteSets, TLC

VARIABLES
    agent,          \* the HumanInLoopAgent object: its five fields, or NoAgent
    call,           \* the most recent call on the agent: operation, argument, outcome
    llm_messages,   \* the message list of the most recent llm.invoke
    asked,          \* the question of the successful ask() since the last approve()/reset()
    pc,             \* main(): where the command loop is
    event,          \* main(): what input() last delivered
    printed,        \* main(): what the last command printed
    files,          \* the files save_code writes
    completion,     \* extractor: the completion text it is given
    extraction,     \* extractor: what _extract_code and ask() make of completion
    temp_file,      \* execute_code: content of _temp_exec.py, or Absent
    run,            \* execute_code: each call's position, argument, child and report
    overlap,        \* execute_code: whether another call ran during this call
    st_stage,       \* GUI: st.session_state.stage
    st_pending_response,  \* GUI: st.session_state.pending_response
    st_messages,    \* GUI: st.session_state.messages
    click           \* GUI: the widget that triggered the last script run

vars == <<agent, call, llm_messages, asked, pc, event, printed, files, completion, extraction,
          temp_file, run, overlap, st_stage, st_pending_response, st_messages, click>>

agent_vars == <<agent, call, llm_messages, asked>>
cli_vars == <<pc, event, printed, files>>
ext_vars == <<completion, extraction>>
run_vars == <<temp_file, run, overlap>>
gui_vars == <<st_stage, st_pending_response, st_messages, click>>

(***************************************************************************)
(* Bounds                                                                  *)
(***************************************************************************)
\* largest number of approved question/answer pairs kept in chat_history
MaxApproved == 2

(***************************************************************************)
(* Values                                                                  *)
(***************************************************************************)
\* Python's None, as a text no program text equals
None == <<"<None>">>

\* the exception llm.invoke raises when the model call fails
GatewayError == <<"<GatewayError>">>

\* no agent object (main() before construction)
NoAgent == [none |-> TRUE]

\* AgentStage
CHAT == "chat"
APPROVAL == "approval"
FEEDBACK == "feedback"

AgentStage == {CHAT, APPROVAL, FEEDBACK}

\* the fence delimiter, three backticks, as one token
Fence == "<fence>"

SYSTEM_PROMPT == <<"You are an expert AI assistant">>

\* Python truthiness of an Optional[str]
Truthy(v) == v # None /\ v # << >>

\* whitespace, as str.strip() sees it
IsSpace(tok) == tok \in {" ", "\n"}

\* text[a..b], empty when b < a
Slice(text, a, b) == [k \in 1..(IF b >= a THEN b - a + 1 ELSE 0) |-> text[a + k - 1]]

\* str.strip()
strip(text) ==
    LET keep == {k \in 1..Len(text) : ~IsSpace(text[k])}
    IN  IF keep = {} THEN << >>
        ELSE LET lo == CHOOSE k \in keep : \A m \in keep : k <= m
                 hi == CHOOSE k \in keep : \A m \in keep : k >= m
             IN  Slice(text, lo, hi)

\* "```" in content
Contains(text, tok) == \E k \in 1..Len(text) : text[k] = tok

\* first position of group 1 when ```(?:python)?\n matches at position i, else 0
BodyStart(text, i) ==
    IF i > Len(text) \/ text[i] # Fence THEN 0
    ELSE IF i + 2 <= Len(text) /\ text[i + 1] = "python" /\ text[i + 2] = "\n" THEN i + 3
    ELSE IF i + 1 <= Len(text) /\ text[i + 1] = "\n" THEN i + 2
    ELSE 0

\* positions of a closing fence at or after s
Closers(text, s) == {j \in s..Len(text) : text[j] = Fence}

\* re.search(...) succeeds starting at position i
MatchesAt(text, i) == BodyStart(text, i) # 0 /\ Closers(text, BodyStart(text, i)) # {}

\* _extract_code as it would be were an unclosed block taken up to the end of text
extract_code_to_end(text) ==
    LET starts == {i \in 1..Len(text) : BodyStart(text, i) # 0}
    IN  IF starts = {} THEN None
        ELSE LET i == CHOOSE k \in starts : \A m \in starts : k <= m
                 s == BodyStart(text, i)
                 closers == Closers(text, s) \cup {Len(text) + 1}
                 j == CHOOSE k \in closers : \A m \in closers : k <= m
             IN  strip(Slice(text, s, j - 1))

\* HumanInLoopAgent._extract_code: group 1 of the leftmost match, stripped
extract_code(text) ==
    LET starts == {i \in 1..Len(text) : MatchesAt(text, i)}
    IN  IF starts = {} THEN None
        ELSE LET i == CHOOSE k \in starts : \A m \in starts : k <= m
                 s == BodyStart(text, i)
                 j == CHOOSE k \in Closers(text, s) : \A m \in Closers(text, s) : k <= m
             IN  strip(Slice(text, s, j - 1))

HumanMessage(content) == [role |-> "human", content |-> content]
AIMessage(content) == [role |-> "assistant", content |-> content]
SystemMessage(content) == [role |-> "system", content |-> content]

\* AgentResponse dataclass
AgentResponse(content, has_code, code_block, requires_approval) ==
    [content |-> content, has_code |-> has_code, code_block |-> code_block,
     requires_approval |-> requires_approval]

\* the context as it would be were the whole history sent
LastTen_whole_history(history) == history

\* chat_history[-10:]
LastTen(history) ==
    IF Len(history) <= 10 THEN history ELSE Slice(history, Len(history) - 9, Len(history))

(***************************************************************************)
(* HumanInLoopAgent                                                        *)
(***************************************************************************)
\* the fields __init__ sets
HumanInLoopAgent ==
    [chat_history |-> << >>, stage |-> CHAT, last_question |-> None,
     last_response |-> None, pending_code |-> None]

\* the message list ask() hands to llm.invoke
ask_messages(self, question) ==
    <<SystemMessage(SYSTEM_PROMPT)>> \o LastTen(self.chat_history) \o <<HumanMessage(question)>>

\* ask() as it would be were the question stored before the model is called
ask_stores_before_invoke(self, question, reply) ==
    IF reply = GatewayError
    THEN [self |-> [self EXCEPT !.last_question = question], raised |-> TRUE, ret |-> None]
    ELSE LET content == reply
             has_code == Contains(content, Fence)
             code_block == IF has_code THEN extract_code(content) ELSE None
         IN  [self |-> [self EXCEPT !.last_question = question,
                                    !.last_response = content,
                                    !.pending_code = IF Truthy(code_block) THEN code_block ELSE @,
                                    !.stage = APPROVAL],
              raised |-> FALSE,
              ret |-> AgentResponse(content, has_code, code_block, TRUE)]

\* ask() as it would be were a question refused while a draft awaits decision
ask_only_in_chat(self, question, reply) ==
    IF reply = GatewayError
    THEN [self |-> self, raised |-> TRUE, ret |-> None]
    ELSE LET content == reply
             has_code == Contains(content, Fence)
             code_block == IF has_code THEN extract_code(content) ELSE None
         IN  [self |-> IF self.stage # CHAT THEN self
                       ELSE [self EXCEPT !.last_question = question,
                                         !.last_response = content,
                                         !.pending_code = IF Truthy(code_block) THEN code_block ELSE @,
                                         !.stage = APPROVAL],
              raised |-> FALSE,
              ret |-> AgentResponse(content, has_code, code_block, TRUE)]

\* ask() as it would be were only answers with code sent to approval
ask_approval_only_for_code(self, question, reply) ==
    IF reply = GatewayError
    THEN [self |-> self, raised |-> TRUE, ret |-> None]
    ELSE LET content == reply
             has_code == Contains(content, Fence)
             code_block == IF has_code THEN extract_code(content) ELSE None
         IN  [self |-> [self EXCEPT !.last_question = question,
                                    !.last_response = content,
                                    !.pending_code = IF Truthy(code_block) THEN code_block ELSE @,
                                    !.stage = IF Truthy(code_block) THEN APPROVAL ELSE CHAT],
              raised |-> FALSE,
              ret |-> AgentResponse(content, has_code, code_block, Truthy(code_block))]

\* ask(): reply is the content llm.invoke returns, or GatewayError when it raises
ask(self, question, reply) ==
    IF reply = GatewayError
    THEN [self |-> self, raised |-> TRUE, ret |-> None]
    ELSE LET content == reply
             has_code == Contains(content, Fence)
             code_block == IF has_code THEN extract_code(content) ELSE None
         IN  [self |-> [self EXCEPT !.last_question = question,
                                    !.last_response = content,
                                    !.pending_code = IF Truthy(code_block) THEN code_block ELSE @,
                                    !.stage = APPROVAL],
              raised |-> FALSE,
              ret |-> AgentResponse(content, has_code, code_block, TRUE)]

\* the two confirmation strings approve() returns
CodeApproved(approved_code) == <<"Code approved!", Fence, "python", "\n">> \o approved_code \o <<"\n", Fence>>
ResponseApproved == <<"Response approved!">>

\* approve()
approve(self) ==
    LET pending == Truthy(self.last_question) /\ Truthy(self.last_response)
        approved_code == self.pending_code
    IN  [self |-> [self EXCEPT !.chat_history =
                                   IF pending
                                   THEN @ \o <<HumanMessage(self.last_question),
                                               AIMessage(self.last_response)>>
                                   ELSE @,
                               !.stage = CHAT,
                               !.pending_code = None,
                               !.last_question = None,
                               !.last_response = None],
         raised |-> FALSE,
         ret |-> IF Truthy(approved_code) THEN CodeApproved(approved_code) ELSE ResponseApproved]

\* the f-string reject() builds
revision_prompt(last_question, last_response, feedback) ==
    <<"ORIGINAL QUESTION:">> \o last_question \o <<"YOUR PREVIOUS RESPONSE:">> \o last_response
        \o <<"USER FEEDBACK:">> \o feedback

\* the early return of reject(): nothing to revise, the model is not called
reject_returns_early(self) == ~Truthy(self.last_question) \/ ~Truthy(self.last_response)

\* the message list reject() hands to llm.invoke
reject_messages(self, feedback) ==
    <<SystemMessage(SYSTEM_PROMPT),
      HumanMessage(revision_prompt(self.last_question, self.last_response, feedback))>>

\* reject() as it would be were the rejected draft put into the history
reject_records_draft(self, feedback, reply) ==
    IF reject_returns_early(self)
    THEN [self |-> self, raised |-> FALSE,
          ret |-> AgentResponse(<<"No previous response to revise.">>, FALSE, None, FALSE)]
    ELSE IF reply = GatewayError
    THEN [self |-> self, raised |-> TRUE, ret |-> None]
    ELSE LET content == reply
             has_code == Contains(content, Fence)
             code_block == IF has_code THEN extract_code(content) ELSE None
         IN  [self |-> [self EXCEPT !.chat_history = @ \o <<AIMessage(self.last_response)>>,
                                    !.last_response = content,
                                    !.pending_code = IF Truthy(code_block) THEN code_block ELSE @,
                                    !.stage = APPROVAL],
              raised |-> FALSE,
              ret |-> AgentResponse(content, has_code, code_block, TRUE)]

\* reject() as it would be without its early return
reject_without_guard(self, feedback, reply) ==
    IF reply = GatewayError
    THEN [self |-> self, raised |-> TRUE, ret |-> None]
    ELSE LET content == reply
             has_code == Contains(content, Fence)
             code_block == IF has_code THEN extract_code(content) ELSE None
         IN  [self |-> [self EXCEPT !.last_response = content,
                                    !.pending_code = IF Truthy(code_block) THEN code_block ELSE @,
                                    !.stage = APPROVAL],
              raised |-> FALSE,
              ret |-> AgentResponse(content, has_code, code_block, TRUE)]

\* reject(): reply is read only when the model is called
reject(self, feedback, reply) ==
    IF reject_returns_early(self)
    THEN [self |-> self, raised |-> FALSE,
          ret |-> AgentResponse(<<"No previous response to revise.">>, FALSE, None, FALSE)]
    ELSE IF reply = GatewayError
    THEN [self |-> self, raised |-> TRUE, ret |-> None]
    ELSE LET content == reply
             has_code == Contains(content, Fence)
             code_block == IF has_code THEN extract_code(content) ELSE None
         IN  [self |-> [self EXCEPT !.last_response = content,
                                    !.pending_code = IF Truthy(code_block) THEN code_block ELSE @,
                                    !.stage = APPROVAL],
              raised |-> FALSE,
              ret |-> AgentResponse(content, has_code, code_block, TRUE)]

\* reset() as it would be were pending_code left alone
reset_keeps_pending_code(self) ==
    [self EXCEPT !.chat_history = << >>, !.stage = CHAT, !.last_question = None,
                 !.last_response = None]

\* reset()
reset(self) ==
    [self EXCEPT !.chat_history = << >>, !.stage = CHAT, !.last_question = None,
                 !.last_response = None, !.pending_code = None]

(***************************************************************************)
(* Inputs                                                                  *)
(***************************************************************************)
\* an answer without any fence
Plain == <<"hello">>
\* a python-tagged block; its code is <<"a">>
CodeA == <<Fence, "python", "\n", "a", "\n", Fence>>
\* an untagged block after some prose; its code is <<"b">>
CodeB == <<"see", Fence, "\n", "b", Fence>>
\* an opening fence that is never closed
Unterminated == <<Fence, "python", "\n", "a">>

\* what the model may answer; << >> is an empty completion
Answers == {<< >>, Plain, CodeA, CodeB, Unterminated}
Replies == Answers \cup {GatewayError}

Questions == {<< >>, <<"q1">>, <<"q2">>}
Feedbacks == {<< >>, <<"shorter">>}

\* call: op and arg name the method and its argument, stage is agent.stage when it was
\* called, reply is what llm.invoke produced (None when it was not called),
\* raised tells whether the method raised, ret is what it returned
NoCall ==
    [op |-> "none", arg |-> None, stage |-> CHAT, invoked |-> FALSE, reply |-> None,
     raised |-> FALSE, ret |-> None]

Record(op, arg, invoked, reply, r) ==
    [op |-> op, arg |-> arg, stage |-> agent.stage, invoked |-> invoked,
     reply |-> IF invoked THEN reply ELSE None, raised |-> r.raised, ret |-> r.ret]

\* the destinations save_code is given
Paths == {<<"out.py">>}

\* event: kind is "line", "interrupt" (KeyboardInterrupt) or "eof" (EOFError);
\* line is user_input, the line read and stripped
NoEvent == [kind |-> "none", line |-> << >>]

\* the temporary file does not exist
Absent == <<"<absent>">>

\* the callers of execute_code
Procs == {1, 2}

\* a call of execute_code that has not started
NotRunning == [pc |-> "idle", code |-> None, child |-> None, report |-> None]

\* the parts of the state that belong to the extractor, the runner and the GUI,
\* before any of them has acted
NotExtracted == [done |-> FALSE]
ExtInit == completion = << >> /\ extraction = NotExtracted
RunInit ==
    /\ temp_file = Absent
    /\ run = [p \in Procs |-> NotRunning]
    /\ overlap = [p \in Procs |-> FALSE]
\* st.session_state.pending_response when it is None
NoResponse == [none |-> TRUE]

GuiInit ==
    /\ st_stage = "chat"
    /\ st_pending_response = NoResponse
    /\ st_messages = << >>
    /\ click = "none"

(***************************************************************************)
(* The agent driven through its public methods                             *)
(***************************************************************************)
Init ==
    /\ agent = HumanInLoopAgent
    /\ call = NoCall
    /\ llm_messages = << >>
    /\ asked = None
    /\ pc = "start"
    /\ event = NoEvent
    /\ printed = << >>
    /\ files = [path \in Paths |-> None]
    /\ ExtInit
    /\ RunInit
    /\ GuiInit

Ask(question, reply) ==
    LET r == ask(agent, question, reply)
    IN  /\ agent # NoAgent
        /\ agent' = r.self
        /\ call' = Record("ask", question, TRUE, reply, r)
        /\ llm_messages' = ask_messages(agent, question)
        /\ asked' = IF r.raised THEN asked ELSE question
        /\ UNCHANGED <<cli_vars, ext_vars, run_vars, gui_vars>>

Approve ==
    LET r == approve(agent)
    IN  /\ agent # NoAgent
        /\ Len(r.self.chat_history) <= 2 * MaxApproved
        /\ agent' = r.self
        /\ call' = Record("approve", None, FALSE, None, r)
        /\ asked' = None
        /\ UNCHANGED <<llm_messages, cli_vars, ext_vars, run_vars, gui_vars>>

Reject(feedback, reply) ==
    LET r == reject(agent, feedback, reply)
        invoked == ~reject_returns_early(agent)
    IN  /\ agent # NoAgent
        /\ agent' = r.self
        /\ call' = Record("reject", feedback, invoked, reply, r)
        /\ llm_messages' = IF invoked THEN reject_messages(agent, feedback) ELSE llm_messages
        /\ UNCHANGED <<asked, cli_vars, ext_vars, run_vars, gui_vars>>

Reset ==
    /\ agent # NoAgent
    /\ agent' = reset(agent)
    /\ call' = Record("reset", None, FALSE, None, [raised |-> FALSE, ret |-> None])
    /\ asked' = None
    /\ UNCHANGED <<llm_messages, cli_vars, ext_vars, run_vars, gui_vars>>

Next ==
    \/ \E question \in Questions, reply \in Replies : Ask(question, reply)
    \/ Approve
    \/ \E feedback \in Feedbacks, reply \in Replies : Reject(feedback, reply)
    \/ Reset

Spec == Init /\ [][Next]_vars

(***************************************************************************)
(* save_code, execute_code                                                 *)
(***************************************************************************)
\* save_code(): io is "ok", or "oserror" when makedirs/open/write raise.
\* Returns the message and the files afterwards.
save_code(code, filepath, io, fs) ==
    IF io = "ok"
    THEN [ret |-> <<"Saved to">> \o filepath, files |-> [fs EXCEPT ![filepath] = code]]
    ELSE [ret |-> <<"Error:", "OSError">>, files |-> fs]

\* the ways a run of the subprocess can end
RunOutcomes == {"stdout", "stdout+stderr", "silent", "timeout", "error"}

\* execute_code(): the report for each way the run can end; the temporary file is
\* written and removed within the call
execute_code(code, outcome) ==
    CASE outcome = "stdout" -> <<"Output:">> \o code
      [] outcome = "stdout+stderr" -> <<"Output:">> \o code \o <<"Errors:">> \o code
      [] outcome = "silent" -> <<"Executed (no output)">>
      [] outcome = "timeout" -> <<"Timeout: Code took too long (30s limit)">>
      [] OTHER -> <<"Error:", "OSError">>

(***************************************************************************)
(* main(): the CLI command loop                                            *)
(***************************************************************************)
\* str.lower() on the tokens the loop compares
Lower(tok) ==
    CASE tok = "QUIT" -> "quit"
      [] tok = "Approve" -> "approve"
      [] OTHER -> tok

lower(text) == [k \in 1..Len(text) |-> Lower(text[k])]

\* user_input.lower().startswith(word + ' ')
StartsWithWord(user_input, word) ==
    Len(user_input) >= 2 /\ Lower(user_input[1]) = word /\ user_input[2] = " "

\* user_input[7:].strip() and user_input[5:].strip(): what follows the word and blank
Rest(user_input) == strip(Slice(user_input, 3, Len(user_input)))

\* the branch of the if/elif chain that handles user_input
Command(user_input) ==
    IF user_input = << >> THEN "empty"
    ELSE IF lower(user_input) = <<"quit">> THEN "quit"
    ELSE IF lower(user_input) = <<"approve">> THEN "approve"
    ELSE IF StartsWithWord(user_input, "reject") THEN "reject"
    ELSE IF StartsWithWord(user_input, "save") THEN "save"
    ELSE IF lower(user_input) = <<"run">> THEN "run"
    ELSE "ask"

\* the lines typed at the prompt, before strip()
Lines ==
    {<<" ">>, <<"QUIT">>, <<"Approve", " ">>, <<"reject", " ", "shorter">>, <<"reject">>,
     <<"save", " ", "out.py">>, <<"run">>, <<"hi">>}

\* what the model may do when called from the loop
CliReplies == {Plain, CodeA, GatewayError}

NoCode(verb) == <<"No code to", verb>>
Traceback == <<"Traceback (most recent call last):">>

InitCLI ==
    /\ agent = NoAgent
    /\ call = NoCall
    /\ llm_messages = << >>
    /\ asked = None
    /\ pc = "start"
    /\ event = NoEvent
    /\ printed = << >>
    /\ files = [path \in Paths |-> None]
    /\ ExtInit
    /\ RunInit
    /\ GuiInit

\* agent = HumanInLoopAgent(): with a key the loop starts, without one main returns
MainStart(has_key) ==
    /\ pc = "start"
    /\ IF has_key
       THEN agent' = HumanInLoopAgent /\ pc' = "input" /\ printed' = <<<<"Agent initialized!">>>>
       ELSE agent' = agent /\ pc' = "returned" /\ printed' = <<<<"API key required.">>>>
    /\ UNCHANGED <<call, llm_messages, asked, event, files, ext_vars, run_vars, gui_vars>>

Read(line, kind) ==
    /\ pc = "input"
    /\ Command(strip(line)) = kind
    /\ event' = [kind |-> "line", line |-> strip(line)]

\* if not user_input: continue
CliEmpty(line) ==
    /\ Read(line, "empty")
    /\ UNCHANGED <<agent_vars, pc, printed, files, ext_vars, run_vars, gui_vars>>

CliQuit(line) ==
    /\ Read(line, "quit")
    /\ pc' = "returned"
    /\ printed' = <<<<"Goodbye!">>>>
    /\ UNCHANGED <<agent_vars, files, ext_vars, run_vars, gui_vars>>

CliApprove(line) ==
    LET r == approve(agent)
    IN  /\ Read(line, "approve")
        /\ Len(r.self.chat_history) <= 2 * MaxApproved
        /\ agent' = r.self
        /\ call' = Record("approve", None, FALSE, None, r)
        /\ asked' = None
        /\ printed' = <<r.ret>>
        /\ UNCHANGED <<llm_messages, pc, files, ext_vars, run_vars, gui_vars>>

CliReject(line, reply) ==
    LET feedback == Rest(strip(line))
        r == reject(agent, feedback, reply)
        invoked == ~reject_returns_early(agent)
    IN  /\ Read(line, "reject")
        /\ agent' = r.self
        /\ call' = Record("reject", feedback, invoked, reply, r)
        /\ llm_messages' = IF invoked THEN reject_messages(agent, feedback) ELSE llm_messages
        /\ IF r.raised
           THEN pc' = "raised" /\ printed' = <<Traceback>>
           ELSE pc' = pc /\ printed' = <<<<"Improved Response:">> \o r.ret.content,
                                         <<"Satisfied?">>>>
        /\ UNCHANGED <<asked, files, ext_vars, run_vars, gui_vars>>

CliSave(line, io) ==
    LET path == Rest(strip(line))
        r == save_code(agent.pending_code, path, io, files)
    IN  /\ Read(line, "save")
        /\ path \in Paths
        /\ IF Truthy(agent.pending_code)
           THEN printed' = <<r.ret>> /\ files' = r.files
           ELSE printed' = <<NoCode("save")>> /\ files' = files
        /\ UNCHANGED <<agent_vars, pc, ext_vars, run_vars, gui_vars>>

CliRun(line, outcome) ==
    /\ Read(line, "run")
    /\ IF Truthy(agent.pending_code)
       THEN printed' = <<execute_code(agent.pending_code, outcome)>>
       ELSE printed' = <<NoCode("run")>>
    /\ UNCHANGED <<agent_vars, pc, files, ext_vars, run_vars, gui_vars>>

\* any other line is a question
CliAsk(line, reply) ==
    LET question == strip(line)
        r == ask(agent, question, reply)
    IN  /\ Read(line, "ask")
        /\ agent' = r.self
        /\ call' = Record("ask", question, TRUE, reply, r)
        /\ llm_messages' = ask_messages(agent, question)
        /\ asked' = IF r.raised THEN asked ELSE question
        /\ IF r.raised
           THEN pc' = "raised" /\ printed' = <<Traceback>>
           ELSE /\ pc' = pc
                /\ printed' = <<<<"Agent:">> \o r.ret.content, <<"Satisfied?">>>>
                                \o IF r.ret.has_code
                                   THEN <<<<"Code detected! Use 'save <path>' or 'run' after approval.">>>>
                                   ELSE << >>
        /\ UNCHANGED <<files, ext_vars, run_vars, gui_vars>>

\* Ctrl-C at the prompt: except KeyboardInterrupt
CliInterrupt ==
    /\ pc = "input"
    /\ event' = [kind |-> "interrupt", line |-> << >>]
    /\ pc' = "returned"
    /\ printed' = <<<<"Goodbye!">>>>
    /\ UNCHANGED <<agent_vars, files, ext_vars, run_vars, gui_vars>>

\* end of input at the prompt: EOFError, which the loop does not catch
CliEOF ==
    /\ pc = "input"
    /\ event' = [kind |-> "eof", line |-> << >>]
    /\ pc' = "raised"
    /\ printed' = <<Traceback>>
    /\ UNCHANGED <<agent_vars, files, ext_vars, run_vars, gui_vars>>

NextCLI ==
    \/ \E has_key \in BOOLEAN : MainStart(has_key)
    \/ \E line \in Lines : CliEmpty(line)
    \/ \E line \in Lines : CliQuit(line)
    \/ \E line \in Lines : CliApprove(line)
    \/ \E line \in Lines, reply \in CliReplies : CliReject(line, reply)
    \/ \E line \in Lines, io \in {"ok", "oserror"} : CliSave(line, io)
    \/ \E line \in Lines, outcome \in RunOutcomes : CliRun(line, outcome)
    \/ \E line \in Lines, reply \in CliReplies : CliAsk(line, reply)
    \/ CliInterrupt
    \/ CliEOF

SpecCLI == InitCLI /\ [][NextCLI]_vars

(***************************************************************************)
(* Properties of the agent                                                 *)
(***************************************************************************)
\* all three pending fields are cleared
PendingCleared(self) ==
    self.last_question = None /\ self.last_response = None /\ self.pending_code = None

\* history ends with the pair (human: x, assistant: y)
EndsWithPair(history, x, y) ==
    /\ Len(history) >= 2
    /\ history[Len(history) - 1] = HumanMessage(x)
    /\ history[Len(history)] = AIMessage(y)

\* the code an answer carries: its first block when it has a fence and the block
\* is well formed, else none
CodeOf(content) == IF Contains(content, Fence) THEN extract_code(content) ELSE None

\* C1: for every question X and answer Y, approve() right after a successful ask(X)
\* answered Y leaves the history ending with (human: X, assistant: Y), the three
\* pending fields cleared and the stage CHAT.
C1_ApproveRecordsPair ==
    [][(call.op = "ask" /\ ~call.raised /\ call'.op = "approve")
        => /\ EndsWithPair(agent'.chat_history, call.arg, call.ret.content)
           /\ PendingCleared(agent')
           /\ agent'.stage = CHAT]_vars

\* C2: in ask(X), reject(f1), ..., reject(fn), approve() no reject changes the
\* history, and the approve appends exactly (X, the answer of the last successful
\* model call), so no rejected draft is ever in the history.
C2_OnlyCurrentDraftRecorded ==
    [][/\ (call'.op = "reject" => agent'.chat_history = agent.chat_history)
       /\ (/\ call.op \in {"ask", "reject"}
           /\ call.invoked /\ ~call.raised
           /\ asked # None
           /\ call'.op = "approve")
          => agent'.chat_history =
                 agent.chat_history \o <<HumanMessage(asked), AIMessage(call.ret.content)>>]_vars

\* C3: a successful reject() on a pending draft leaves pending_code equal to the
\* code of the new draft (none when the new draft has no extractable block),
\* last_response equal to the new draft, last_question unchanged and the stage
\* APPROVAL.
C3_RejectReplacesCode ==
    [][(call'.op = "reject" /\ call'.invoked /\ ~call'.raised)
        => /\ agent'.pending_code = CodeOf(call'.reply)
           /\ agent'.last_response = call'.reply
           /\ agent'.last_question = agent.last_question
           /\ agent'.stage = APPROVAL]_vars

\* C4: reject() with empty feedback on a pending (non-empty) draft fails with an
\* error without calling the model, and changes nothing of the agent.
C4_EmptyFeedbackRefused ==
    [][(/\ call'.op = "reject" /\ call'.arg = << >>
        /\ agent.stage = APPROVAL
        /\ Truthy(agent.last_question) /\ Truthy(agent.last_response))
        => /\ ~call'.invoked
           /\ call'.raised
           /\ agent' = agent]_vars

\* C5 as claimed: ask() invoked while a draft awaits decision does not overwrite
\* the pending question, answer and code.
C5_AskKeepsPendingDraft ==
    [][(call'.op = "ask" /\ agent.stage = APPROVAL)
        => /\ agent'.last_question = agent.last_question
           /\ agent'.last_response = agent.last_response
           /\ agent'.pending_code = agent.pending_code]_vars

\* C5 amended: ask() is accepted in every stage; a successful ask() invoked while a
\* draft awaits decision replaces the pending question and answer by the new pair,
\* replaces pending_code when the new answer has non-empty extractable code and
\* keeps it otherwise, leaves the history unchanged and the stage APPROVAL.
C5_AskOverwritesPendingDraft ==
    [][(call'.op = "ask" /\ ~call'.raised /\ agent.stage = APPROVAL)
        => /\ agent'.last_question = call'.arg
           /\ agent'.last_response = call'.reply
           /\ agent'.pending_code =
                  IF Truthy(CodeOf(call'.reply)) THEN CodeOf(call'.reply) ELSE agent.pending_code
           /\ agent'.chat_history = agent.chat_history
           /\ agent'.stage = APPROVAL]_vars

\* a second question answered while the first draft was awaiting decision
C5_Witness ==
    /\ call.op = "ask" /\ ~call.raised /\ call.stage = APPROVAL
    /\ call.arg = <<"q2">>
    /\ agent.last_question = <<"q2">>
    /\ agent.last_response = Plain
    /\ agent.pending_code = <<"a">>

\* C6: when the model call of ask() or reject() fails, the error reaches the caller
\* and the agent is exactly as before; an ask() failing in CHAT leaves the stage
\* CHAT with no pending data.
C6_GatewayFailureChangesNothing ==
    [][(call'.op \in {"ask", "reject"} /\ call'.reply = GatewayError)
        => /\ call'.raised
           /\ agent' = agent
           /\ (call'.op = "ask" /\ call'.stage = CHAT)
               => (agent'.stage = CHAT /\ PendingCleared(agent'))]_vars

\* an ask() whose model call failed in CHAT, after an earlier approved exchange
C6_Witness ==
    /\ call.op = "ask" /\ call.reply = GatewayError /\ call.raised
    /\ call.stage = CHAT
    /\ agent.stage = CHAT
    /\ Len(agent.chat_history) = 2

\* what approve() returns when it does approve a staged draft
ApprovalConfirmations ==
    {approve([HumanInLoopAgent EXCEPT !.stage = APPROVAL, !.last_question = <<"q1">>,
                                      !.last_response = a,
                                      !.pending_code = IF Truthy(CodeOf(a)) THEN CodeOf(a) ELSE None]).ret
        : a \in Answers \ {<< >>}}

\* C7: approve() with no draft pending changes nothing of the agent and returns a
\* result distinguishable from the confirmation of an actual approval.
C7_NothingToApprove ==
    [][(call'.op = "approve" /\ agent.last_question = None /\ agent.last_response = None)
        => /\ agent' = agent
           /\ call'.ret \notin ApprovalConfirmations]_vars

\* C8: reset() is enabled in every state, leaves empty history, stage CHAT and the
\* pending fields cleared, which is the state after construction, and a second
\* reset() changes nothing.
C8_ResetIdempotent ==
    /\ ENABLED Reset
    /\ LET once == reset(agent)
       IN  /\ once.chat_history = << >>
           /\ once.stage = CHAT
           /\ PendingCleared(once)
           /\ once = HumanInLoopAgent
           /\ reset(once) = once
    /\ call.op = "reset" => agent = HumanInLoopAgent

\* reset() called on a pending draft
C8_Witness ==
    /\ call.op = "reset"
    /\ call.stage = APPROVAL
    /\ agent = HumanInLoopAgent

(***************************************************************************)
(* Properties of the CLI                                                   *)
(***************************************************************************)
\* C9: no failure of a command ends the session: after every command other than
\* quit the loop is waiting for input again.
C9_NoCommandEndsSession ==
    [][(pc = "input" /\ event'.kind = "line" /\ Command(event'.line) # "quit")
        => pc' = "input"]_vars

\* the code blocks the model's answers carry
Codes == {CodeOf(a) : a \in {b \in Answers : Truthy(CodeOf(b))}}

\* C10: once the user has approved a response with detected code, save <path> and
\* run operate on that code and do not report that there is no code.
C10_SaveRunUseApprovedCode ==
    [][(/\ pc = "input"
        /\ event.kind = "line" /\ Command(event.line) = "approve"
        /\ call.op = "approve" /\ call.ret \in {CodeApproved(c) : c \in Codes}
        /\ event'.kind = "line" /\ Command(event'.line) \in {"save", "run"})
        => \E c \in Codes :
              /\ call.ret = CodeApproved(c)
              /\ Command(event'.line) = "run"
                  => \E outcome \in RunOutcomes : printed' = <<execute_code(c, outcome)>>
              /\ Command(event'.line) = "save"
                  => \E io \in {"ok", "oserror"} :
                        LET r == save_code(c, Rest(event'.line), io, files)
                        IN  printed' = <<r.ret>> /\ files' = r.files]_vars

(***************************************************************************)
(* Further properties of the agent                                         *)
(***************************************************************************)
\* C11: every successful ask() returns a response with requires_approval = true
\* and leaves the stage at APPROVAL, with or without code in the answer.
C11_AskAlwaysNeedsApproval ==
    [][(call'.op = "ask" /\ ~call'.raised)
        => /\ call'.ret.requires_approval
           /\ agent'.stage = APPROVAL]_vars

\* a successful ask() whose answer has no code
C11_Witness ==
    /\ call.op = "ask" /\ ~call.raised
    /\ call.reply = Plain
    /\ ~call.ret.has_code
    /\ call.ret.requires_approval
    /\ agent.stage = APPROVAL

\* history is human, assistant, human, assistant, ...
Alternates(history) ==
    /\ Len(history) % 2 = 0
    /\ \A k \in 1..Len(history) :
          history[k].role = IF k % 2 = 1 THEN "human" ELSE "assistant"

\* old is an initial part of new
IsPrefix(old, new) ==
    Len(old) <= Len(new) /\ \A k \in 1..Len(old) : new[k] = old[k]

\* C15: ask() and reject() leave the history unchanged, approve() leaves it
\* unchanged or appends exactly two entries (human then assistant) after the
\* existing ones, only reset() removes entries, and so the history always has even
\* length and alternates human/assistant.
C15_HistoryOnlyByApproveAndReset ==
    /\ [][/\ call'.op \in {"ask", "reject"} => agent'.chat_history = agent.chat_history
          /\ call'.op = "approve"
              => \/ agent'.chat_history = agent.chat_history
                 \/ /\ Len(agent'.chat_history) = Len(agent.chat_history) + 2
                    /\ IsPrefix(agent.chat_history, agent'.chat_history)
                    /\ agent'.chat_history[Len(agent.chat_history) + 1].role = "human"
                    /\ agent'.chat_history[Len(agent.chat_history) + 2].role = "assistant"
          /\ ~IsPrefix(agent.chat_history, agent'.chat_history)
              => call'.op = "reset" /\ agent'.chat_history = << >>]_vars
    /\ [](agent # NoAgent => Alternates(agent.chat_history))

\* a second pair appended by approve() after a revision
C15_Witness ==
    /\ call.op = "approve"
    /\ Len(agent.chat_history) = 4
    /\ agent.chat_history[1] # agent.chat_history[3]
    /\ Alternates(agent.chat_history)

\* C18: in every reachable state the stage is APPROVAL exactly when last_question
\* and last_response are both set, CHAT exactly when both are unset, and never
\* FEEDBACK.
C18_StageMatchesPending ==
    /\ agent.stage = APPROVAL <=> (agent.last_question # None /\ agent.last_response # None)
    /\ agent.stage = CHAT <=> (agent.last_question = None /\ agent.last_response = None)
    /\ agent.stage # FEEDBACK

\* a draft still staged after a reject() whose model call failed
C18_Witness ==
    /\ call.op = "reject" /\ call.raised
    /\ agent.stage = APPROVAL
    /\ agent.last_question # None /\ agent.last_response # None

(***************************************************************************)
(* The extractor applied to every short completion                         *)
(***************************************************************************)
\* longest completion tried
MaxLen == 5

\* the tokens completions are made of
Tokens == {Fence, "python", "js", "\n", " ", "a"}

Completions == UNION {[1..n -> Tokens] : n \in 0..MaxLen}

InitExtract ==
    /\ agent = HumanInLoopAgent
    /\ call = NoCall
    /\ llm_messages = << >>
    /\ asked = None
    /\ pc = "start"
    /\ event = NoEvent
    /\ printed = << >>
    /\ files = [path \in Paths |-> None]
    /\ completion \in Completions
    /\ extraction = NotExtracted
    /\ RunInit
    /\ GuiInit

\* _extract_code(completion), and the response ask() builds from the same completion
Extract ==
    /\ ~extraction.done
    /\ extraction' = [done |-> TRUE,
                      code |-> extract_code(completion),
                      response |-> ask(HumanInLoopAgent, <<"q1">>, completion).ret]
    /\ UNCHANGED <<agent_vars, cli_vars, completion, run_vars, gui_vars>>

NextExtract == Extract

SpecExtract == InitExtract /\ [][NextExtract]_vars

\* the positions of the fences of a text
Fences(t) == {k \in 1..Len(t) : t[k] = Fence}

\* a language tag right after the opening fence
IsTag(tok) == tok \in {"python", "js"}

\* t has exactly one fenced block and it is well formed: an opening fence, an
\* optional tag, a newline, the inner text, a closing fence
OneBlock(t) ==
    /\ Cardinality(Fences(t)) = 2
    /\ LET i == CHOOSE k \in Fences(t) : \A m \in Fences(t) : k <= m
           j == CHOOSE k \in Fences(t) : \A m \in Fences(t) : k >= m
       IN  \/ i + 1 < j /\ t[i + 1] = "\n"
           \/ i + 2 < j /\ IsTag(t[i + 1]) /\ t[i + 2] = "\n"

\* the inner text of that block
Inner(t) ==
    LET i == CHOOSE k \in Fences(t) : \A m \in Fences(t) : k <= m
        j == CHOOSE k \in Fences(t) : \A m \in Fences(t) : k >= m
    IN  IF t[i + 1] = "\n" THEN Slice(t, i + 2, j - 1) ELSE Slice(t, i + 3, j - 1)

\* C13: for every completion with exactly one well-formed fenced block the
\* extracted code is the trimmed inner text of the block, whatever tag (none,
\* python or another) follows the opening fence.
C13_OneBlockExtracted ==
    (extraction.done /\ OneBlock(completion))
        => extraction.code = strip(Inner(completion))

\* C14: a completion without a fence yields has_code = false and code_block = none,
\* and a completion whose only fence is an unclosed opening fence yields
\* code_block = none.
C14_NoBlockNoCode ==
    extraction.done
        => /\ Fences(completion) = {}
               => ~extraction.response.has_code /\ extraction.response.code_block = None
           /\ Cardinality(Fences(completion)) = 1
               => extraction.response.code_block = None /\ extraction.code = None

\* an opening fence, tag and newline followed by code and no closing fence
C14_Witness ==
    /\ extraction.done
    /\ completion = <<Fence, "python", "\n", "a">>
    /\ extraction.response.has_code
    /\ extraction.response.code_block = None

(***************************************************************************)
(* The agent with a history longer than the context window                 *)
(***************************************************************************)
\* largest number of approved pairs in the long-history runs
MaxWindow == 6

WindowQuestions == {<<"q1">>}
WindowReplies == {Plain, CodeA, GatewayError}

\* approve(), up to MaxWindow pairs
ApproveWindow ==
    LET r == approve(agent)
    IN  /\ agent # NoAgent
        /\ Len(r.self.chat_history) <= 2 * MaxWindow
        /\ agent' = r.self
        /\ call' = Record("approve", None, FALSE, None, r)
        /\ asked' = None
        /\ UNCHANGED <<llm_messages, cli_vars, ext_vars, run_vars, gui_vars>>

NextWindow ==
    \/ \E question \in WindowQuestions, reply \in WindowReplies : Ask(question, reply)
    \/ ApproveWindow
    \/ \E feedback \in Feedbacks, reply \in WindowReplies : Reject(feedback, reply)
    \/ Reset

SpecWindow == Init /\ [][NextWindow]_vars

\* C16: the message list ask(question) sends is the system message, then the last
\* min(10, len(history)) history entries in their order, then the question as a
\* human message, and nothing else (no pending or rejected draft).
C16_AskSendsLastTen ==
    call.op = "ask"
        => LET h == agent.chat_history
               n == Len(h)
               w == IF n < 10 THEN n ELSE 10
           IN  /\ Len(llm_messages) = w + 2
               /\ llm_messages[1] = SystemMessage(SYSTEM_PROMPT)
               /\ \A k \in 1..w : llm_messages[1 + k] = h[n - w + k]
               /\ llm_messages[w + 2] = HumanMessage(call.arg)

\* a question asked over twelve history entries while a revised draft is pending
C16_Witness ==
    /\ call.op = "ask"
    /\ call.stage = APPROVAL
    /\ Len(agent.chat_history) = 12
    /\ Len(llm_messages) = 12
    /\ llm_messages[2] = agent.chat_history[3]

(***************************************************************************)
(* execute_code step by step, for one caller at a time and for two         *)
(***************************************************************************)
\* a file left over from an earlier, killed run
Stale == <<"stale">>

\* the code strings execute_code is given
RunCodes == {<<"a">>, <<"b">>}

\* what the child wrote on stderr when it could not open the script
CantOpen == <<"Errors:", "can't open file '_temp_exec.py'">>

Active(p) == run[p].pc \notin {"idle", "returned", "raised"}

InitRun ==
    /\ agent = HumanInLoopAgent
    /\ call = NoCall
    /\ llm_messages = << >>
    /\ asked = None
    /\ pc = "start"
    /\ event = NoEvent
    /\ printed = << >>
    /\ files = [path \in Paths |-> None]
    /\ ExtInit
    /\ temp_file \in {Absent, Stale}
    /\ run = [p \in Procs |-> NotRunning]
    /\ overlap = [p \in Procs |-> FALSE]
    /\ GuiInit

not_run_vars == <<agent_vars, cli_vars, ext_vars, gui_vars>>

\* execute_code(code) is entered by caller p
Call(p, code) ==
    /\ ~Active(p)
    /\ run' = [run EXCEPT ![p] = [pc |-> "write", code |-> code, child |-> None, report |-> None]]
    /\ overlap' = [q \in Procs |->
                      IF q = p THEN \E o \in Procs \ {p} : Active(o)
                      ELSE overlap[q] \/ Active(q)]
    /\ UNCHANGED <<temp_file, not_run_vars>>

\* the same, by a caller that waits for the previous call to end
CallSequential(p, code) ==
    /\ \A q \in Procs : ~Active(q)
    /\ Call(p, code)

\* the write as it would be were the file opened for appending
RunWrite_appends(p, io) ==
    /\ run[p].pc = "write"
    /\ CASE io = "ok" ->
              /\ temp_file' = IF temp_file = Absent THEN run[p].code ELSE temp_file \o run[p].code
              /\ run' = [run EXCEPT ![p].pc = "spawn"]
         [] io = "open fails" ->
              /\ temp_file' = temp_file
              /\ run' = [run EXCEPT ![p].pc = "finally",
                                    ![p].report = execute_code(run[p].code, "error")]
         [] OTHER ->
              /\ temp_file' = << >>
              /\ run' = [run EXCEPT ![p].pc = "finally",
                                    ![p].report = execute_code(run[p].code, "error")]
    /\ UNCHANGED <<overlap, not_run_vars>>

\* with open(temp_file, 'w') as f: f.write(code) -- created or truncated, then
\* filled; on OSError the file is untouched (open failed) or left empty
RunWrite(p, io) ==
    /\ run[p].pc = "write"
    /\ CASE io = "ok" ->
              /\ temp_file' = run[p].code
              /\ run' = [run EXCEPT ![p].pc = "spawn"]
         [] io = "open fails" ->
              /\ temp_file' = temp_file
              /\ run' = [run EXCEPT ![p].pc = "finally",
                                    ![p].report = execute_code(run[p].code, "error")]
         [] OTHER ->
              /\ temp_file' = << >>
              /\ run' = [run EXCEPT ![p].pc = "finally",
                                    ![p].report = execute_code(run[p].code, "error")]
    /\ UNCHANGED <<overlap, not_run_vars>>

\* subprocess.run: the child process is started, or Popen raises OSError
RunSpawn(p, ok) ==
    /\ run[p].pc = "spawn"
    /\ run' = IF ok THEN [run EXCEPT ![p].pc = "load"]
              ELSE [run EXCEPT ![p].pc = "finally",
                               ![p].report = execute_code(run[p].code, "error")]
    /\ UNCHANGED <<temp_file, overlap, not_run_vars>>

\* the child interpreter opens _temp_exec.py and reads what is in it now
RunLoad(p) ==
    /\ run[p].pc = "load"
    /\ run' = [run EXCEPT ![p].pc = "wait", ![p].child = temp_file]
    /\ UNCHANGED <<temp_file, overlap, not_run_vars>>

\* the child ends within the 30 seconds; the report is made of its output
RunExit(p, outcome) ==
    /\ run[p].pc = "wait"
    /\ run' = [run EXCEPT ![p].pc = "finally",
                          ![p].report = IF run[p].child = Absent THEN CantOpen
                                        ELSE execute_code(run[p].child, outcome)]
    /\ UNCHANGED <<temp_file, overlap, not_run_vars>>

\* the timeout as it would be were the removal not in a finally block
RunTimeout_without_cleanup(p) ==
    /\ run[p].pc \in {"load", "wait"}
    /\ run' = [run EXCEPT ![p].pc = "return",
                          ![p].report = execute_code(run[p].code, "timeout")]
    /\ UNCHANGED <<temp_file, overlap, not_run_vars>>

\* the 30 seconds pass: the child is killed, TimeoutExpired is caught
RunTimeout(p) ==
    /\ run[p].pc \in {"load", "wait"}
    /\ run' = [run EXCEPT ![p].pc = "finally",
                          ![p].report = execute_code(run[p].code, "timeout")]
    /\ UNCHANGED <<temp_file, overlap, not_run_vars>>

\* finally: if os.path.exists(temp_file)
RunExists(p) ==
    /\ run[p].pc = "finally"
    /\ run' = [run EXCEPT ![p].pc = IF temp_file # Absent THEN "remove" ELSE "return"]
    /\ UNCHANGED <<temp_file, overlap, not_run_vars>>

\* os.remove(temp_file)
RunRemove(p) ==
    /\ run[p].pc = "remove"
    /\ temp_file # Absent
    /\ temp_file' = Absent
    /\ run' = [run EXCEPT ![p].pc = "return"]
    /\ UNCHANGED <<overlap, not_run_vars>>

\* os.remove(temp_file) when the file has gone since the test: FileNotFoundError
\* leaves the finally block and the call raises
RunRemoveMissing(p) ==
    /\ run[p].pc = "remove"
    /\ temp_file = Absent
    /\ run' = [run EXCEPT ![p].pc = "raised", ![p].report = None]
    /\ UNCHANGED <<temp_file, overlap, not_run_vars>>

\* the report is returned
RunReturn(p) ==
    /\ run[p].pc = "return"
    /\ run' = [run EXCEPT ![p].pc = "returned"]
    /\ UNCHANGED <<temp_file, overlap, not_run_vars>>

WriteOutcomes == {"ok", "open fails", "write fails"}
ChildOutcomes == {"stdout", "stdout+stderr", "silent"}

\* the steps of a call once it is entered
RunStep(p) ==
    \/ \E io \in WriteOutcomes : RunWrite(p, io)
    \/ \E ok \in BOOLEAN : RunSpawn(p, ok)
    \/ RunLoad(p)
    \/ \E outcome \in ChildOutcomes : RunExit(p, outcome)
    \/ RunTimeout(p)
    \/ RunExists(p)
    \/ RunRemove(p)
    \/ RunReturn(p)

NextRun ==
    \/ \E p \in Procs, code \in RunCodes : CallSequential(p, code)
    \/ \E p \in Procs : RunStep(p)

\* one caller at a time; a call that has been entered keeps running
SpecRun == InitRun /\ [][NextRun]_vars /\ \A p \in Procs : WF_vars(RunStep(p))

NextRunConcurrent ==
    \/ \E p \in Procs, code \in RunCodes : Call(p, code)
    \/ \E p \in Procs : RunStep(p)
    \/ \E p \in Procs : RunRemoveMissing(p)

\* two callers whose calls may overlap
SpecRunConcurrent == InitRun /\ [][NextRunConcurrent]_vars

\* C12: when a call of execute_code returns, on whichever path, the temporary file
\* does not exist, and with one caller at a time every call that was entered
\* returns.
C12_TempFileRemoved ==
    /\ [][\A p \in Procs :
            (run[p].pc # "returned" /\ run'[p].pc = "returned") => temp_file' = Absent]_vars
    /\ \A p \in Procs : Active(p) ~> (run[p].pc = "returned")

\* a call that timed out has returned and nothing is left behind
C12_Witness ==
    \E p \in Procs :
        /\ run[p].pc = "returned"
        /\ run[p].child = run[p].code
        /\ run[p].report = execute_code(run[p].code, "timeout")
        /\ temp_file = Absent

\* C17: with the one fixed file name, calls that overlap can interfere: a call's
\* child runs something other than the call's code, or its cleanup finds the file
\* gone, and this happens only to a call another call overlapped.
C17_InterferenceOnlyWhenOverlapping ==
    \A p \in Procs :
        (run[p].child \notin {None, run[p].code} \/ run[p].pc = "raised") => overlap[p]

\* the child of call 1, given code a, ran the code b that call 2 wrote
C17_Witness ==
    /\ run[1].code = <<"a">>
    /\ run[2].code = <<"b">>
    /\ run[1].child = <<"b">>
    /\ overlap[1]

(***************************************************************************)
(* app.py: the Streamlit GUI, one script run per widget event              *)
(***************************************************************************)
\* most entries st.session_state.messages is let grow to
MaxMessages == 5

GuiPrompts == {<<"hi">>}
GuiFeedbacks == {<< >>, <<"shorter">>}
GuiReplies == {Plain, CodeA, GatewayError}
GuiRunOutcomes == {"stdout", "timeout"}

Message(role, content) == [role |-> role, content |-> content]

InitGUI ==
    /\ agent = NoAgent
    /\ call = NoCall
    /\ llm_messages = << >>
    /\ asked = None
    /\ pc = "start"
    /\ event = NoEvent
    /\ printed = << >>
    /\ files = [path \in Paths |-> None]
    /\ ExtInit
    /\ RunInit
    /\ GuiInit

gui_frame == <<pc, event, printed, ext_vars, run_vars>>

\* the approval section is rendered
ApprovalShown == st_stage = "approval" /\ st_pending_response # NoResponse

\* "Initialize Agent": a new agent replaces the one in the session when a key is
\* entered and the constructor does not raise
GuiInitialize(api_key, ok) ==
    /\ click' = "initialize"
    /\ agent' = IF api_key /\ ok THEN HumanInLoopAgent ELSE agent
    /\ UNCHANGED <<call, llm_messages, asked, files, st_stage, st_pending_response,
                   st_messages, gui_frame>>

\* "Reset Conversation"
GuiReset ==
    /\ click' = "reset"
    /\ st_messages' = << >>
    /\ st_stage' = "chat"
    /\ st_pending_response' = NoResponse
    /\ IF agent # NoAgent
       THEN /\ agent' = reset(agent)
            /\ call' = Record("reset", None, FALSE, None, [raised |-> FALSE, ret |-> None])
            /\ asked' = None
       ELSE UNCHANGED <<agent, call, asked>>
    /\ UNCHANGED <<llm_messages, files, gui_frame>>

\* "YES" as it would be were the agent not told of the approval
GuiYes_without_approve ==
    /\ ApprovalShown
    /\ click' = "yes"
    /\ IF agent # NoAgent
       THEN /\ Len(st_messages) < MaxMessages
            /\ st_messages' = Append(st_messages, Message("user", <<"Satisfied">>))
       ELSE UNCHANGED st_messages
    /\ st_stage' = "chat"
    /\ st_pending_response' = NoResponse
    /\ UNCHANGED <<agent_vars, files, gui_frame>>

\* "YES"
GuiYes ==
    /\ ApprovalShown
    /\ click' = "yes"
    /\ IF agent # NoAgent
       THEN LET r == approve(agent)
            IN  /\ Len(st_messages) < MaxMessages
                /\ agent' = r.self
                /\ call' = Record("approve", None, FALSE, None, r)
                /\ asked' = None
                /\ st_messages' = Append(st_messages, Message("user", <<"Satisfied">>))
       ELSE UNCHANGED <<agent, call, asked, st_messages>>
    /\ st_stage' = "chat"
    /\ st_pending_response' = NoResponse
    /\ UNCHANGED <<llm_messages, files, gui_frame>>

\* "NO"
GuiNo ==
    /\ ApprovalShown
    /\ click' = "no"
    /\ st_stage' = "feedback"
    /\ UNCHANGED <<agent_vars, files, st_pending_response, st_messages, gui_frame>>

\* "Run Code", shown when the pending response has code
GuiRunCode(outcome) ==
    /\ ApprovalShown
    /\ st_pending_response.has_code
    /\ click' = "run"
    /\ IF agent # NoAgent /\ Truthy(agent.pending_code)
       THEN /\ Len(st_messages) < MaxMessages
            /\ st_messages' = Append(st_messages,
                   Message("assistant",
                           <<"Execution Result:">> \o execute_code(agent.pending_code, outcome)))
       ELSE st_messages' = st_messages
    /\ UNCHANGED <<agent_vars, files, st_stage, st_pending_response, gui_frame>>

\* "Save", shown when the pending response has code; save_path may be empty
GuiSave(save_path, io) ==
    /\ ApprovalShown
    /\ st_pending_response.has_code
    /\ click' = "save"
    /\ IF save_path # << >> /\ agent # NoAgent /\ Truthy(agent.pending_code)
       THEN files' = save_code(agent.pending_code, save_path, io, files).files
       ELSE files' = files
    /\ UNCHANGED <<agent_vars, st_stage, st_pending_response, st_messages, gui_frame>>

\* "Submit Feedback"
GuiSubmitFeedback(feedback, reply) ==
    /\ st_stage = "feedback"
    /\ click' = "submit"
    /\ IF feedback # << >> /\ agent # NoAgent
       THEN LET r == reject(agent, feedback, reply)
                invoked == ~reject_returns_early(agent)
                said == Append(st_messages, Message("user", <<"Not satisfied:">> \o feedback))
            IN  /\ Len(st_messages) + 2 <= MaxMessages
                /\ agent' = r.self
                /\ call' = Record("reject", feedback, invoked, reply, r)
                /\ llm_messages' = IF invoked THEN reject_messages(agent, feedback)
                                   ELSE llm_messages
                /\ IF r.raised
                   THEN /\ st_messages' = said
                        /\ UNCHANGED <<st_pending_response, st_stage>>
                   ELSE /\ st_messages' = Append(said,
                               Message("assistant", <<"Improved Response:">> \o r.ret.content))
                        /\ st_pending_response' = r.ret
                        /\ st_stage' = "approval"
       ELSE UNCHANGED <<agent, call, llm_messages, st_messages, st_pending_response, st_stage>>
    /\ UNCHANGED <<asked, files, gui_frame>>

\* the chat input, rendered while the stage is 'chat'
GuiChat(prompt, reply) ==
    /\ st_stage = "chat"
    /\ click' = "chat"
    /\ IF agent = NoAgent
       THEN UNCHANGED <<agent_vars, st_messages, st_pending_response, st_stage>>
       ELSE LET r == ask(agent, prompt, reply)
                said == Append(st_messages, Message("user", prompt))
            IN  /\ Len(st_messages) + 2 <= MaxMessages
                /\ agent' = r.self
                /\ call' = Record("ask", prompt, TRUE, reply, r)
                /\ llm_messages' = ask_messages(agent, prompt)
                /\ asked' = IF r.raised THEN asked ELSE prompt
                /\ IF r.raised
                   THEN /\ st_messages' = said
                        /\ UNCHANGED <<st_pending_response, st_stage>>
                   ELSE /\ st_messages' = Append(said, Message("assistant", r.ret.content))
                        /\ st_pending_response' = r.ret
                        /\ st_stage' = "approval"
    /\ UNCHANGED <<files, gui_frame>>

NextGUI ==
    \/ \E api_key \in BOOLEAN, ok \in BOOLEAN : GuiInitialize(api_key, ok)
    \/ GuiReset
    \/ GuiYes
    \/ GuiNo
    \/ \E outcome \in GuiRunOutcomes : GuiRunCode(outcome)
    \/ \E save_path \in Paths \cup {<< >>}, io \in {"ok", "oserror"} : GuiSave(save_path, io)
    \/ \E feedback \in GuiFeedbacks, reply \in GuiReplies : GuiSubmitFeedback(feedback, reply)
    \/ \E prompt \in GuiPrompts, reply \in GuiReplies : GuiChat(prompt, reply)

SpecGUI == InitGUI /\ [][NextGUI]_vars

(***************************************************************************)
(* Properties of the GUI                                                   *)
(***************************************************************************)
\* C19: whenever the session stage is 'approval' or 'feedback', the agent held by
\* the session has a pending question and answer.
C19_ReviewStageHasDraft ==
    st_stage \in {"approval", "feedback"}
        => /\ agent # NoAgent
           /\ agent.last_question # None
           /\ agent.last_response # None

\* C20: agent.ask() is invoked only in script runs that start with the session
\* stage 'chat'; in every state with session stage 'chat' the agent has no pending
\* draft; so an ask through the GUI never overwrites a draft awaiting decision.
C20_AskOnlyWithoutDraft ==
    /\ [](st_stage = "chat" => (agent = NoAgent \/ (agent.stage = CHAT /\ PendingCleared(agent))))
    /\ [][(click' = "chat" /\ agent # NoAgent)
           => /\ st_stage = "chat"
              /\ agent.stage = CHAT
              /\ PendingCleared(agent)]_vars

\* a second question asked through the chat input after the first was approved
C20_Witness ==
    /\ click = "chat"
    /\ call.op = "ask" /\ ~call.raised /\ call.stage = CHAT
    /\ st_stage = "approval"
    /\ Len(agent.chat_history) = 2
    /\ agent.last_question = <<"hi">>

====
